---- MODULE Spec2Model ----
(***************************************************************************)
(* Model of the AI provider factory (AIProviderFactory) of task-master:    *)
(* the static instance cache, getProvider with its await points,           *)
(* getBestProvider, getAllProviders and clearInstances.  Callers are       *)
(* cooperative tasks of one JavaScript thread: a step of the model is the  *)
(* code that runs between two awaits.  ProviderSpec is one                 *)
(* AnthropicProvider called directly (initialize, the generation           *)
(* operations, handleError, isAvailable); TaskIdSpec is one call of        *)
(* isValidTaskId.                                                          *)
(***************************************************************************)
EXTENDS Naturals, Integers, Sequences, FiniteSets, TLC

VARIABLES instances, heap, gp, top, calls, lastEvt, self, outcome, checked

\* the factory; one AnthropicProvider used directly; one isValidTaskId call
fvars == <<instances, heap, gp, top, calls, lastEvt>>
pvars == <<self, outcome>>
tvars == <<checked>>
vars == <<fvars, pvars, tvars>>

(* ------------------------------ bounds --------------------------------- *)
\* getProvider invocations (direct or nested) and clearInstances calls made in
\* one behaviour
MaxCalls == 3
\* provider objects constructed in one behaviour
MaxInst == 2

\* calls in flight at once
MaxInFlight == 2

\* the slots of the calls in flight (async tasks of the one JavaScript thread)
Callers == 1..MaxInFlight

(* ------------------------------ values --------------------------------- *)
Undefined == "<undefined>"
\* provider type strings a caller may pass; "openai" is not supported
Types == {"anthropic", "google", "openai"}
ApiKeys == {Undefined, "", "k1"}
\* config argument of getProvider: null/undefined, or an object
NullConfig == [kind |-> "null", apiKey |-> Undefined]
ObjConfig(k) == [kind |-> "object", apiKey |-> k]
Configs == {NullConfig} \cup {ObjConfig(k) : k \in ApiKeys}
\* JavaScript truthiness of a string-or-undefined value
Truthy(v) == v \notin {Undefined, ""}

NoError == [name |-> "none", code |-> Undefined, message |-> <<>>]
Error(message) == [name |-> "Error", code |-> Undefined, message |-> message]
TypeError(message) == [name |-> "TypeError", code |-> Undefined, message |-> message]
ProviderError(message, code) ==
    [name |-> "ProviderError", code |-> code, message |-> message]
InstanceOfProviderError(e) == e.name = "ProviderError"

(* --------------------------- the instance Map -------------------------- *)
\* a Map as its set of entries
MapHas(m, k) == \E e \in m : e.key = k
MapGet(m, k) == (CHOOSE e \in m : e.key = k).value
\* MapSet as a push onto a list of entries
MapSet_append(m, k, v) == m \cup {[key |-> k, value |-> v]}
\* MapSet that keeps the entry a key already has
MapSet_keepFirst(m, k, v) == IF MapHas(m, k) THEN m ELSE m \cup {[key |-> k, value |-> v]}
MapSet(m, k, v) == {e \in m : e.key # k} \cup {[key |-> k, value |-> v]}
\* MapDelete and MapClear that remove nothing
MapDelete_noop(m, k) == m
MapDelete(m, k) == {e \in m : e.key # k}
MapClear_noop(m) == m
MapClear(m) == {}
MapValues(m) == {e.value : e \in m}
MapKeys(m) == {e.key : e \in m}

SUPPORTED_PROVIDERS == <<"anthropic", "google">>
Includes(s, x) == \E i \in 1..Len(s) : s[i] = x

(* ------------------------------ validation ----------------------------- *)
\* validateProviderType that accepts every type
validateProviderType_any(type) == NoError
validateProviderType(type) ==
    IF ~Includes(SUPPORTED_PROVIDERS, type)
    THEN ProviderError(<<"Provider type", type, "not supported. Must be one of:">>
                           \o SUPPORTED_PROVIDERS,
                       "INVALID_PROVIDER")
    ELSE NoError

\* validateConfig that tests apiKey against undefined only
validateConfig_undefinedOnly(config, type) ==
    IF config.apiKey = Undefined
    THEN ProviderError(<<"API key is required for", type, "provider">>, "INVALID_CONFIG")
    ELSE NoError
validateConfig(config, type) ==
    IF ~Truthy(config.apiKey)
    THEN ProviderError(<<"API key is required for", type, "provider">>, "INVALID_CONFIG")
    ELSE NoError

\* a catch that rethrows whatever it caught
catchRewrap_passAll(error, type) == error
\* the outer catch of getProvider
catchRewrap(error, type) ==
    IF ~InstanceOfProviderError(error)
    THEN ProviderError(<<"Unexpected error creating", type, "provider:">> \o error.message,
                       "UNKNOWN_ERROR")
    ELSE error

(* ------------------------- what the awaits yield ----------------------- *)
\* provider.isAvailable(): AnthropicProvider never throws and is false without
\* an apiKey; any other resolved class may answer anything or throw
isAvailableOutcomes(obj) ==
    IF obj.cls = "anthropic"
    THEN IF ~Truthy(obj.config.apiKey) THEN {"false"} ELSE {"true", "false"}
    ELSE {"true", "false", "throw"}
\* import(`./${type}/${type}Provider.js`): the module loads or not; its default
\* export is a class (part_001 for anthropic) or, for another module, maybe not
importOutcomes(type) ==
    IF type = "anthropic" THEN {"ok", "fail"} ELSE {"ok", "fail", "notctor"}
initializeOutcomes == {"ok", "throw"}

ImportMessage == <<"Cannot find module">>
CtorMessage == <<"ProviderClass is not a constructor">>
InitMessage == <<"initialize failed">>
ProbeMessage == <<"isAvailable failed">>

(* ------------------------------ frames --------------------------------- *)
\* the local state of one getProvider call; probed..newOutcome record what the
\* call did and what its awaits yielded, prev what happened right before it,
\* cleared whether clearInstances ran while the call was in flight
NoPrev == [kind |-> "none", id |-> 0]
IdleGP ==
    [pc |-> "idle", type |-> Undefined, config |-> NullConfig, provider |-> 0,
     error |-> NoError, ret |-> 0,
     probed |-> 0, cachedOutcome |-> "none", imported |-> "none", created |-> 0,
     initOutcome |-> "none", newOutcome |-> "none", prev |-> NoPrev,
     cleared |-> FALSE]

\* the local state of one getBestProvider / getAllProviders call
IdleTop ==
    [op |-> "none", pc |-> "idle", config |-> Undefined, env |-> Undefined,
     order |-> <<>>, idx |-> 0, tried |-> <<>>, providers |-> {},
     error |-> NoError, ret |-> 0]

\* what the last step did: ended a getProvider call (f, whether it wrote the
\* cache, and the instance its write replaced), ended a getBestProvider /
\* getAllProviders call (t), or cleared the cache (mark: the objects constructed
\* so far)
NoEvt ==
    [kind |-> "none", f |-> IdleGP, t |-> IdleTop, cached |-> FALSE, replaced |-> 0,
     mark |-> 0]
EndEvt(f, cached) == [NoEvt EXCEPT !.kind = "end", !.f = f, !.cached = cached]
TopEvt(t) == [NoEvt EXCEPT !.kind = t.op, !.t = t]
ClearEvt(n) == [NoEvt EXCEPT !.kind = "clear", !.mark = n]

\* what a starting getProvider(type, ..) remembers of the step before it
Capture(evt, type) ==
    IF evt.kind = "end" /\ evt.cached /\ evt.f.type = type
    THEN [kind |-> "end", id |-> evt.f.ret]
    ELSE IF evt.kind = "clear" THEN [kind |-> "clear", id |-> evt.mark]
    ELSE NoPrev

(* ------------------------------ getProvider ---------------------------- *)
Throw(f, error) == [f EXCEPT !.pc = "done", !.error = catchRewrap(error, f.type)]
Return(f, id) == [f EXCEPT !.pc = "done", !.ret = id]

\* getProviderEnter without the look into the cache
getProviderEnter_noCache(type, config, inst, prev) ==
    LET f0 == [IdleGP EXCEPT !.type = type, !.config = config, !.prev = prev]
        e1 == validateProviderType(type)
        e2 == validateConfig(config, type)
    IN  IF e1 # NoError THEN Throw(f0, e1)
        ELSE IF e2 # NoError THEN Throw(f0, e2)
        ELSE [f0 EXCEPT !.pc = "import"]
\* getProvider from its call to its first await
getProviderEnter(type, config, inst, prev) ==
    LET f0 == [IdleGP EXCEPT !.type = type, !.config = config, !.prev = prev]
        e1 == validateProviderType(type)
        e2 == validateConfig(config, type)
    IN  IF e1 # NoError THEN Throw(f0, e1)
        ELSE IF e2 # NoError THEN Throw(f0, e2)
        ELSE IF MapHas(inst, type)
             THEN [f0 EXCEPT !.pc = "probeCached", !.provider = MapGet(inst, type),
                             !.probed = MapGet(inst, type)]
             ELSE [f0 EXCEPT !.pc = "import"]

\* after `await provider.isAvailable()` on the cached instance
onCachedProbe(f, o, inst) ==
    LET g == [f EXCEPT !.cachedOutcome = o]
    IN  IF o = "throw" THEN [f |-> Throw(g, Error(ProbeMessage)), instances |-> inst]
        ELSE IF o = "true" THEN [f |-> Return(g, f.provider), instances |-> inst]
        ELSE [f |-> [g EXCEPT !.pc = "import", !.provider = 0],
              instances |-> MapDelete(inst, f.type)]

\* after `await import(...)`: module.default, new ProviderClass(), and the call
\* of initialize(config), which stores the config
\* an initialize that stores no config
NewObject_noConfig(type, config) == [cls |-> type, config |-> NullConfig]
NewObject(type, config) == [cls |-> type, config |-> config]
onImport(f, o, hp) ==
    LET g == [f EXCEPT !.imported = o]
    IN  IF o = "fail"
        THEN [f |-> Throw(g, ProviderError(<<"Failed to load", f.type, "provider module:">>
                                               \o ImportMessage, "MODULE_LOAD_ERROR")),
              heap |-> hp]
        ELSE IF o = "notctor"
        THEN [f |-> Throw(g, TypeError(CtorMessage)), heap |-> hp]
        ELSE [f |-> [g EXCEPT !.pc = "init", !.provider = Len(hp) + 1,
                              !.created = Len(hp) + 1],
              heap |-> Append(hp, NewObject(f.type, f.config))]

\* after `await provider.initialize(config)`
onInitialize(f, o) ==
    LET g == [f EXCEPT !.initOutcome = o]
    IN  IF o = "throw"
        THEN Throw(g, ProviderError(<<"Failed to initialize", f.type, "provider:">>
                                        \o InitMessage, "INIT_ERROR"))
        ELSE [g EXCEPT !.pc = "probeNew"]

\* after `await provider.isAvailable()` on the new instance
Unavailable(type) ==
    ProviderError(<<type, "provider is not available after initialization">>,
                  "PROVIDER_UNAVAILABLE")
\* onNewProbe with the cache written before the probe is looked at
onNewProbe_cacheFirst(f, o, inst) ==
    LET g == [f EXCEPT !.newOutcome = o]
    IN  IF o = "throw" THEN [f |-> Throw(g, Error(ProbeMessage)), instances |-> inst]
        ELSE IF o = "false"
        THEN [f |-> Throw(g, Unavailable(f.type)),
              instances |-> MapSet(inst, f.type, f.provider)]
        ELSE [f |-> Return(g, f.provider), instances |-> MapSet(inst, f.type, f.provider)]
onNewProbe(f, o, inst) ==
    LET g == [f EXCEPT !.newOutcome = o]
    IN  IF o = "throw" THEN [f |-> Throw(g, Error(ProbeMessage)), instances |-> inst]
        ELSE IF o = "false"
        THEN [f |-> Throw(g, Unavailable(f.type)), instances |-> inst]
        ELSE [f |-> Return(g, f.provider), instances |-> MapSet(inst, f.type, f.provider)]

(* -------------------- getBestProvider, getAllProviders ------------------ *)
\* `${type.toUpperCase()}_API_KEY`
ToUpperCase(type) ==
    CASE type = "anthropic" -> "ANTHROPIC"
      [] type = "google" -> "GOOGLE"
      [] type = "openai" -> "OPENAI"
ApiKeyVar(type) == ToUpperCase(type) \o "_API_KEY"
EnvVars == {"AI_PROVIDER"} \cup {ApiKeyVar(t) : t \in Types}
\* process.env, as the call finds it
MkEnv(set) == [v \in EnvVars |-> IF v \in DOMAIN set THEN set[v] ELSE Undefined]
EnvNone == MkEnv(<<>>)
EnvFallback == MkEnv("AI_PROVIDER" :> "" @@ "ANTHROPIC_API_KEY" :> "k1")
EnvGoogle == MkEnv("AI_PROVIDER" :> "google" @@ "GOOGLE_API_KEY" :> "k1")
EnvOpenai == MkEnv("AI_PROVIDER" :> "openai" @@ "OPENAI_API_KEY" :> "k1"
                       @@ "GOOGLE_API_KEY" :> "k1")
EnvBoth == MkEnv("AI_PROVIDER" :> "anthropic" @@ "ANTHROPIC_API_KEY" :> "k1"
                     @@ "GOOGLE_API_KEY" :> "k1")
\* the config argument: null, or an object of provider-specific settings
NullSettings == [kind |-> "null", of |-> <<>>]
Settings(of) == [kind |-> "object", of |-> of]
\* the (config, process.env) pairs the calls are made with
TopInputs ==
    { <<NullSettings, EnvBoth>>,
      <<Settings(<<>>), EnvNone>>,
      <<Settings(<<>>), EnvFallback>>,
      <<Settings("anthropic" :> [apiKey |-> "k1"]), EnvGoogle>>,
      <<Settings(<<>>), EnvOpenai>>,
      <<Settings("anthropic" :> [apiKey |-> "k2"]), EnvNone>>,
      <<Settings("google" :> [apiKey |-> ""]), EnvBoth>> }

\* { apiKey: process.env[..], model: process.env[..], ...config[type] }
attemptConfig(env, config, type) ==
    IF type \in DOMAIN config.of /\ "apiKey" \in DOMAIN config.of[type]
    THEN ObjConfig(config.of[type].apiKey)
    ELSE ObjConfig(env[ApiKeyVar(type)])

\* the types getBestProvider tries, in order
bestOrder(env) ==
    (IF Truthy(env["AI_PROVIDER"]) THEN <<env["AI_PROVIDER"]>> ELSE <<>>)
        \o <<"anthropic", "google">>

\* what one attempt came to
ProbesMade(f) == f.probed # 0 \/ f.initOutcome = "ok"
Attempt(f) == [type |-> f.type, ok |-> f.error = NoError, ret |-> f.ret, probes |-> ProbesMade(f)]
\* config[type] on a null config throws inside the try: the attempt fails before
\* getProvider is called
FailedEarly(type) == [type |-> type, ok |-> FALSE, ret |-> 0, probes |-> FALSE]

NoProviders ==
    ProviderError(<<"No AI providers are available. Please check your configuration and API keys.">>,
                  "NO_PROVIDERS")

\* bestAfter with no catch around the attempt
bestAfter_surface(t, f) ==
    LET u == [t EXCEPT !.tried = Append(@, Attempt(f))]
    IN  IF f.error = NoError THEN [u EXCEPT !.pc = "done", !.ret = f.ret]
        ELSE [u EXCEPT !.pc = "done", !.error = f.error]
\* getBestProvider after the await of one getProvider attempt
bestAfter(t, f) ==
    LET u == [t EXCEPT !.tried = Append(@, Attempt(f))]
    IN  IF f.error = NoError THEN [u EXCEPT !.pc = "done", !.ret = f.ret]
        ELSE IF t.idx = Len(t.order) THEN [u EXCEPT !.pc = "done", !.error = NoProviders]
        ELSE [u EXCEPT !.idx = @ + 1]

\* allAfter with no catch around the attempt
allAfter_abort(t, f) ==
    LET u == [t EXCEPT !.tried = Append(@, Attempt(f))]
    IN  IF f.error # NoError THEN [u EXCEPT !.pc = "done", !.error = f.error]
        ELSE IF t.idx = Len(t.order)
        THEN [u EXCEPT !.pc = "done", !.providers = MapSet(@, f.type, f.ret)]
        ELSE [u EXCEPT !.idx = @ + 1, !.providers = MapSet(@, f.type, f.ret)]
\* getAllProviders after the await of one getProvider attempt
allAfter(t, f) ==
    LET u == [t EXCEPT !.tried = Append(@, Attempt(f)),
                       !.providers = IF f.error = NoError THEN MapSet(@, f.type, f.ret) ELSE @]
    IN  IF t.idx = Len(t.order) THEN [u EXCEPT !.pc = "done"] ELSE [u EXCEPT !.idx = @ + 1]

\* the frame of a starting call; with a null config every attempt fails in turn
\* without an await
topEnter(op, config, env, order) ==
    LET t == [IdleTop EXCEPT !.op = op, !.pc = "awaitGP", !.config = config, !.env = env,
                             !.order = order, !.idx = 1]
    IN  IF config.kind = "null"
        THEN [t EXCEPT !.pc = "done", !.idx = Len(order),
                       !.tried = [i \in 1..Len(order) |-> FailedEarly(order[i])],
                       !.error = IF op = "getBestProvider" THEN NoProviders ELSE NoError]
        ELSE t

(* --------------------------- AnthropicProvider -------------------------- *)
\* an error object as handleError reads it: name, type, error (the body of a
\* structured vendor error) and message, a sequence of words
NoBody == [type |-> Undefined, message |-> <<>>]
Body(type, message) == [type |-> type, message |-> message]
\* error.message of an error that has none
NoMessage == <<Undefined>>
JsError(name, message) ==
    [name |-> name, type |-> Undefined, error |-> NoBody, message |-> message]
NewError(message) == JsError("Error", message)
NoJsError == JsError("none", <<>>)
\* what the vendor client rejects with on an error response of the API
APIError(body, message) ==
    [name |-> "APIError", type |-> "error", error |-> body, message |-> message]

\* `${value}` of a message
TemplateString(message) == IF message = NoMessage THEN <<"undefined">> ELSE message
LowerCaseWord(w) ==
    CASE w \in {"Timeout", "TIMEOUT"} -> "timeout"
      [] w \in {"Network", "NETWORK"} -> "network"
      [] OTHER -> w
toLowerCase(message) == [i \in 1..Len(message) |-> LowerCaseWord(message[i])]
\* error.message?.toLowerCase().includes(word)
messageIncludes(error, word) ==
    error.message # NoMessage /\ Includes(toLowerCase(error.message), word)

OverloadedMessage ==
    <<"Claude is currently experiencing high demand and is overloaded. Please wait a few minutes and try again.">>
RateLimitMessage ==
    <<"You have exceeded the rate limit. Please wait a few minutes before making more requests.">>
InvalidRequestMessage ==
    <<"There was an issue with the request format. If this persists, please report it as a bug.">>
TimeoutMessage == <<"The request to Claude timed out. Please try again.">>
NetworkMessage ==
    <<"There was a network error connecting to Claude. Please check your internet connection and try again.">>
ApiErrorPrefix == <<"Claude API error:">>
CommunicatingPrefix == <<"Error communicating with Claude:">>

\* handleError that looks at the message text before the structured body
handleError_messageFirst(error) ==
    IF messageIncludes(error, "timeout") THEN TimeoutMessage
    ELSE IF messageIncludes(error, "network") THEN NetworkMessage
    ELSE IF error.type = "error" /\ error.error # NoBody
    THEN CASE error.error.type = "overloaded_error" -> OverloadedMessage
           [] error.error.type = "rate_limit_error" -> RateLimitMessage
           [] error.error.type = "invalid_request_error" -> InvalidRequestMessage
           [] OTHER -> ApiErrorPrefix \o TemplateString(error.error.message)
    ELSE CommunicatingPrefix \o TemplateString(error.message)
handleError(error) ==
    IF error.type = "error" /\ error.error # NoBody
    THEN CASE error.error.type = "overloaded_error" -> OverloadedMessage
           [] error.error.type = "rate_limit_error" -> RateLimitMessage
           [] error.error.type = "invalid_request_error" -> InvalidRequestMessage
           [] OTHER -> ApiErrorPrefix \o TemplateString(error.error.message)
    ELSE IF messageIncludes(error, "timeout") THEN TimeoutMessage
    ELSE IF messageIncludes(error, "network") THEN NetworkMessage
    ELSE CommunicatingPrefix \o TemplateString(error.message)

\* a catch that rethrows the error it caught
rewrap_raw(error) == error
\* catch (error) { throw new Error(this.handleError(error)) }
rewrap(error) == NewError(handleError(error))

\* the errors a vendor request is rejected with, and handleError is given
Messages ==
    { <<"Request", "Timeout">>, <<"NETWORK", "unreachable">>, <<"network", "timeout">>,
      <<"connection", "refused">>, <<>>, NoMessage }
BodyTypes ==
    {"overloaded_error", "rate_limit_error", "invalid_request_error", "authentication_error"}
VendorErrors ==
    {APIError(Body(t, <<"invalid", "x-api-key">>), m) :
         t \in BodyTypes, m \in {<<"Request", "Timeout">>, <<"401">>}}
    \cup {APIError(NoBody, m) : m \in {<<"NETWORK", "unreachable">>, <<"500">>}}
    \cup {JsError("Error", m) : m \in Messages}

\* JavaScript values a call returns
JsUndefined == [kind |-> "undefined", at |-> 0]
\* the array / the string written at place i of the parsed text
JsArray(i) == [kind |-> "array", at |-> i]
JsString(i) == [kind |-> "string", at |-> i]
JsObject(tasks, subtasks) == [kind |-> "object", tasks |-> tasks, subtasks |-> subtasks]
JsBoolean(b) == [kind |-> "boolean", is |-> b]
\* a string made of the words m
JsMessage(m) == [kind |-> "string", words |-> m]
isArray(v) == v.kind = "array"
JsTruthy(v) == v.kind # "undefined"

\* the text of a vendor response, token by token: braces, members of a JSON
\* object ("T": "tasks":[..], "S": "subtasks":[..], "N": "tasks":"..",
\* "M": "subtasks":".."), and "w", any other text
TextTokens == {"{", "}", "T", "S", "N", "M", "w"}
MemberTokens == {"T", "S", "N", "M"}
MaxText == 4
Texts == UNION {[1..n -> TextTokens] : n \in 0..MaxText}

SetMin(S) == CHOOSE i \in S : \A j \in S : i <= j
SetMax(S) == CHOOSE i \in S : \A j \in S : i >= j
\* content.match(..): null, or match[0]
NoMatch == <<>>
\* a match that is the whole content
match_whole(content) == content
\* a match that ends at the first closing brace
match_lazy(content) ==
    LET opens == {i \in 1..Len(content) : content[i] = "{"}
    IN  IF opens = {} THEN NoMatch
        ELSE LET first == SetMin(opens)
                 closes == {j \in (first + 1)..Len(content) : content[j] = "}"}
             IN  IF closes = {} THEN NoMatch
                 ELSE SubSeq(content, first, SetMin(closes))
\* content.match(/\{[\s\S]*\}/): from the first opening brace that has a closing
\* brace after it to the last closing brace
match(content) ==
    LET opens == {i \in 1..Len(content) : content[i] = "{"}
    IN  IF opens = {} THEN NoMatch
        ELSE LET first == SetMin(opens)
                 closes == {j \in (first + 1)..Len(content) : content[j] = "}"}
             IN  IF closes = {} THEN NoMatch
                 ELSE SubSeq(content, first, SetMax(closes))

SyntaxErrorMessage == <<"Unexpected token in JSON">>
ParseFailure == [ok |-> FALSE, value |-> JsUndefined,
                 error |-> JsError("SyntaxError", SyntaxErrorMessage)]
\* the members of s from place i on, added to obj; a later member of a name
\* replaces an earlier one
RECURSIVE parseMembers(_, _, _)
parseMembers(s, i, obj) ==
    IF i = Len(s) THEN [ok |-> TRUE, value |-> obj, error |-> NoJsError]
    ELSE CASE s[i] = "T" -> parseMembers(s, i + 1, [obj EXCEPT !.tasks = JsArray(i)])
           [] s[i] = "S" -> parseMembers(s, i + 1, [obj EXCEPT !.subtasks = JsArray(i)])
           [] s[i] = "N" -> parseMembers(s, i + 1, [obj EXCEPT !.tasks = JsString(i)])
           [] s[i] = "M" -> parseMembers(s, i + 1, [obj EXCEPT !.subtasks = JsString(i)])
           [] OTHER -> ParseFailure
\* JSON.parse(s)
JSONparse(s) ==
    IF Len(s) < 2 \/ s[1] # "{" \/ s[Len(s)] # "}" THEN ParseFailure
    ELSE parseMembers(s, 2, JsObject(JsUndefined, JsUndefined))

GenerationOps == {"generateTasks", "expandTask", "analyzeComplexity"}
ParseFailedMessage == <<"Failed to parse JSON from response">>
InvalidFormatMessage == <<"Invalid response format">>
requiredField(op) == IF op = "generateTasks" THEN "tasks" ELSE "subtasks"

\* from response.content[0].text to the return or the throw inside the try
postProcess(op, content) ==
    LET m == match(content)
        parsed == JSONparse(m)
        field == parsed.value[requiredField(op)]
    IN  IF m = NoMatch
        THEN [ok |-> FALSE, value |-> JsUndefined, error |-> NewError(ParseFailedMessage)]
        ELSE IF ~parsed.ok THEN parsed
        ELSE IF op = "analyzeComplexity" THEN parsed
        ELSE IF ~JsTruthy(field) \/ ~isArray(field)
        THEN [ok |-> FALSE, value |-> JsUndefined, error |-> NewError(InvalidFormatMessage)]
        ELSE [ok |-> TRUE, value |-> field, error |-> NoJsError]

\* what this.#client.messages.create(..) settles with
NoReply == [kind |-> "none", error |-> NoJsError, text |-> <<>>]
Reject(e) == [kind |-> "reject", error |-> e, text |-> <<>>]
Respond(text) == [kind |-> "text", error |-> NoJsError, text |-> text]
\* a response with an empty content list
NoContent == [kind |-> "nocontent", error |-> NoJsError, text |-> <<>>]
Replies ==
    {Reject(e) : e \in VendorErrors} \cup {Respond(t) : t \in Texts} \cup {NoContent}

\* the private fields of an AnthropicProvider: #config, and whether #client
\* holds a vendor client
NewProvider == [config |-> NullConfig, client |-> FALSE]
\* the last call made on the provider: the reply of the vendor (when a request
\* was made), how the call settled, and the error the catch caught
NoOutcome ==
    [op |-> "none", called |-> FALSE, reply |-> NoReply, status |-> "none",
     value |-> JsUndefined, thrown |-> NoJsError, cause |-> NoJsError]
Returned(op, called, reply, value) ==
    [NoOutcome EXCEPT !.op = op, !.called = called, !.reply = reply,
                      !.status = "returned", !.value = value]
Threw(op, called, reply, thrown, cause) ==
    [NoOutcome EXCEPT !.op = op, !.called = called, !.reply = reply,
                      !.status = "threw", !.thrown = thrown, !.cause = cause]

NullClientMessage == <<"Cannot read properties of null">>
NullConfigMessage == <<"Cannot read properties of null (reading 'model')">>
NoContentMessage == <<"Cannot read properties of undefined (reading 'text')">>
CtorMessages == <<"The ANTHROPIC_API_KEY environment variable is missing or empty">>

\* initialize(config): #config is assigned before the client is constructed
initialize(s, config, ctor) ==
    IF config.kind = "null"
    THEN [self |-> [s EXCEPT !.config = config],
          outcome |-> Threw("initialize", FALSE, NoReply,
                            JsError("TypeError", NullConfigMessage), NoJsError)]
    ELSE IF ctor = "throw"
    THEN [self |-> [s EXCEPT !.config = config],
          outcome |-> Threw("initialize", FALSE, NoReply,
                            JsError("AnthropicError", CtorMessages), NoJsError)]
    ELSE [self |-> [config |-> config, client |-> TRUE],
          outcome |-> Returned("initialize", FALSE, NoReply, JsUndefined)]

\* generateTasks, expandTask, analyzeComplexity from the try to the end
generation(op, s, reply) ==
    IF ~s.client
    THEN LET e == JsError("TypeError", NullClientMessage)
         IN  Threw(op, FALSE, NoReply, rewrap(e), e)
    ELSE IF s.config.kind = "null"
    THEN LET e == JsError("TypeError", NullConfigMessage)
         IN  Threw(op, FALSE, NoReply, rewrap(e), e)
    ELSE IF reply.kind = "reject"
    THEN Threw(op, TRUE, reply, rewrap(reply.error), reply.error)
    ELSE IF reply.kind = "nocontent"
    THEN LET e == JsError("TypeError", NoContentMessage)
         IN  Threw(op, TRUE, reply, rewrap(e), e)
    ELSE LET r == postProcess(op, reply.text)
         IN  IF r.ok THEN Returned(op, TRUE, reply, r.value)
             ELSE Threw(op, TRUE, reply, rewrap(r.error), r.error)

\* isAvailable that asks the vendor whatever the config holds
isAvailable_noKeyCheck(s, reply) ==
    IF ~s.client \/ s.config.kind = "null"
    THEN Returned("isAvailable", FALSE, NoReply, JsBoolean(FALSE))
    ELSE Returned("isAvailable", TRUE, reply, JsBoolean(reply.kind # "reject"))
\* isAvailable: false without a request when #config?.apiKey is falsy; an
\* exception (a null client, a rejected request) is caught and gives false
isAvailable(s, reply) ==
    IF ~Truthy(s.config.apiKey) \/ ~s.client
    THEN Returned("isAvailable", FALSE, NoReply, JsBoolean(FALSE))
    ELSE Returned("isAvailable", TRUE, reply, JsBoolean(reply.kind # "reject"))

(* ------------------------------ isValidTaskId -------------------------- *)
\* the argument: null, undefined, a number, or a string as its characters
JsNull == [kind |-> "null", chars |-> <<>>]
NotGiven == [kind |-> "undefined", chars |-> <<>>]
JsNumber == [kind |-> "number", chars |-> <<"7">>]
String(chars) == [kind |-> "string", chars |-> chars]
Digits == {"0", "1", "2", "3", "4", "5", "6", "7", "8", "9"}
TASK_PREFIX == <<"T", "A", "S", "K", "-">>
MinIdLength == 6
MaxIdLength == 12
startsWith(s, prefix) == Len(s) >= Len(prefix) /\ SubSeq(s, 1, Len(prefix)) = prefix

\* isValidTaskId that lets leading zeros pass
isValidTaskId_leadingZeros(input) ==
    /\ input.kind = "string"
    /\ LET s == input.chars
           number == SubSeq(s, Len(TASK_PREFIX) + 1, Len(s))
       IN  /\ startsWith(s, TASK_PREFIX)
           /\ Len(number) >= 1
           /\ \A i \in 1..Len(number) : number[i] \in Digits
           /\ Len(s) >= MinIdLength /\ Len(s) <= MaxIdLength
\* the four rules of the format, for a string; false for anything else
isValidTaskId(input) ==
    /\ input.kind = "string"
    /\ LET s == input.chars
           number == SubSeq(s, Len(TASK_PREFIX) + 1, Len(s))
       IN  /\ startsWith(s, TASK_PREFIX)
           /\ Len(number) >= 1
           /\ \A i \in 1..Len(number) : number[i] \in Digits
           /\ Len(number) > 1 => number[1] # "0"
           /\ Len(s) >= MinIdLength /\ Len(s) <= MaxIdLength

\* the arguments tried: a prefix, a run of digits and a tail
MaxDigits == 8
Prefixes ==
    { TASK_PREFIX, <<"t", "a", "s", "k", "-">>, <<"T", "A", "S", "K">>, <<"T", "S", "K", "-">>,
      <<"T", "A", "S", "K", "-", "-">>, <<"T", "A", "S", "K", "-", " ">>, <<" ">> \o TASK_PREFIX,
      <<>> }
DigitRuns == UNION {[1..n -> {"0", "7"}] : n \in 0..MaxDigits}
Tails == {<<>>, <<"A">>, <<"#">>, <<" ">>}
TaskIdInputs ==
    {JsNull, NotGiven, JsNumber}
    \cup {String(p \o d \o t) : p \in Prefixes, d \in DigitRuns, t \in Tails}
NoCheck == [input |-> NotGiven, called |-> FALSE, result |-> FALSE]

(* ------------------------------ scheduling ----------------------------- *)
Idle(p) == top[p].pc = "idle"
\* a new call takes the first free slot
FreeSlot(p) == Idle(p) /\ \A q \in Callers : q < p => ~Idle(q)
\* the getProvider invocations a starting call may make (one is charged for a
\* call that makes none)
Invocations(t) == IF t.pc = "done" THEN 1 ELSE Len(t.order)

\* the instance the cache held for f's type when f's call wrote the cache
Replaced(inst, f, cached) ==
    IF cached /\ MapHas(inst, f.type) THEN MapGet(inst, f.type) ELSE 0

\* a step of slot p's getProvider call left it as f: a direct call that ended
\* hands its result to the caller and frees the slot, a nested one keeps it for
\* the getBestProvider / getAllProviders awaiting it
Progress(p, f, cached) ==
    /\ lastEvt' = IF f.pc = "done"
                  THEN [EndEvt(f, cached) EXCEPT !.replaced = Replaced(instances, f, cached)]
                  ELSE NoEvt
    /\ IF f.pc = "done" /\ top[p].op = "getProvider"
       THEN /\ gp' = [gp EXCEPT ![p] = IdleGP]
            /\ top' = [top EXCEPT ![p] = IdleTop]
       ELSE /\ gp' = [gp EXCEPT ![p] = f]
            /\ UNCHANGED top

(* ------------------------------ initial state -------------------------- *)
Init ==
    /\ instances = {}
    /\ heap = <<>>
    /\ gp = [p \in Callers |-> IdleGP]
    /\ top = [p \in Callers |-> IdleTop]
    /\ calls = 0
    /\ lastEvt = NoEvt
    /\ self = NewProvider
    /\ outcome = NoOutcome
    /\ checked = NoCheck

(* ------------------------------ actions -------------------------------- *)
CallGetProvider(p) ==
    /\ FreeSlot(p)
    /\ calls < MaxCalls
    /\ \E type \in Types, config \in Configs :
         LET f == getProviderEnter(type, config, instances, Capture(lastEvt, type))
         IN  /\ lastEvt' = IF f.pc = "done" THEN EndEvt(f, FALSE) ELSE NoEvt
             /\ IF f.pc = "done"
                THEN UNCHANGED <<gp, top>>
                ELSE /\ gp' = [gp EXCEPT ![p] = f]
                     /\ top' = [top EXCEPT ![p] = [IdleTop EXCEPT !.op = "getProvider",
                                                                  !.pc = "awaitGP"]]
    /\ calls' = calls + 1
    /\ UNCHANGED <<instances, heap, pvars, tvars>>

ResumeCachedProbe(p) ==
    /\ gp[p].pc = "probeCached"
    /\ \E o \in isAvailableOutcomes(heap[gp[p].provider]) :
         LET r == onCachedProbe(gp[p], o, instances)
         IN  /\ instances' = r.instances
             /\ Progress(p, r.f, FALSE)
    /\ UNCHANGED <<heap, calls, pvars, tvars>>

ResumeImport(p) ==
    /\ gp[p].pc = "import"
    /\ \E o \in importOutcomes(gp[p].type) :
         /\ o = "ok" => Len(heap) < MaxInst
         /\ LET r == onImport(gp[p], o, heap)
            IN  /\ heap' = r.heap
                /\ Progress(p, r.f, FALSE)
    /\ UNCHANGED <<instances, calls, pvars, tvars>>

ResumeInitialize(p) ==
    /\ gp[p].pc = "init"
    /\ \E o \in initializeOutcomes : Progress(p, onInitialize(gp[p], o), FALSE)
    /\ UNCHANGED <<instances, heap, calls, pvars, tvars>>

ResumeNewProbe(p) ==
    /\ gp[p].pc = "probeNew"
    /\ \E o \in isAvailableOutcomes(heap[gp[p].provider]) :
         LET r == onNewProbe(gp[p], o, instances)
         IN  /\ instances' = r.instances
             /\ Progress(p, r.f, r.f.ret # 0)
    /\ UNCHANGED <<heap, calls, pvars, tvars>>

\* slot p's call, at frame t, calls getProvider for order[idx]
Attempting(p, t) ==
    LET type == t.order[t.idx]
        f == getProviderEnter(type, attemptConfig(t.env, t.config, type), instances,
                              Capture(lastEvt, type))
    IN  /\ gp' = [gp EXCEPT ![p] = f]
        /\ top' = [top EXCEPT ![p] = t]
        /\ lastEvt' = IF f.pc = "done" THEN EndEvt(f, FALSE) ELSE NoEvt

\* slot p's call ended as t
Ending(p, t) ==
    /\ gp' = [gp EXCEPT ![p] = IdleGP]
    /\ top' = [top EXCEPT ![p] = IdleTop]
    /\ lastEvt' = TopEvt(t)

CallGetBestProvider(p) ==
    /\ FreeSlot(p)
    /\ \E in \in TopInputs :
         LET t == topEnter("getBestProvider", in[1], in[2], bestOrder(in[2]))
         IN  /\ calls + Invocations(t) <= MaxCalls
             /\ calls' = calls + Invocations(t)
             /\ IF t.pc = "done" THEN Ending(p, t) ELSE Attempting(p, t)
    /\ UNCHANGED <<instances, heap, pvars, tvars>>

ResumeGetBestProvider(p) ==
    /\ top[p].op = "getBestProvider"
    /\ gp[p].pc = "done"
    /\ LET t == bestAfter(top[p], gp[p])
       IN  IF t.pc = "done" THEN Ending(p, t) ELSE Attempting(p, t)
    /\ UNCHANGED <<instances, heap, calls, pvars, tvars>>

CallGetAllProviders(p) ==
    /\ FreeSlot(p)
    /\ \E in \in TopInputs :
         LET t == topEnter("getAllProviders", in[1], in[2], SUPPORTED_PROVIDERS)
         IN  /\ calls + Invocations(t) <= MaxCalls
             /\ calls' = calls + Invocations(t)
             /\ IF t.pc = "done" THEN Ending(p, t) ELSE Attempting(p, t)
    /\ UNCHANGED <<instances, heap, pvars, tvars>>

ResumeGetAllProviders(p) ==
    /\ top[p].op = "getAllProviders"
    /\ gp[p].pc = "done"
    /\ LET t == allAfter(top[p], gp[p])
       IN  IF t.pc = "done" THEN Ending(p, t) ELSE Attempting(p, t)
    /\ UNCHANGED <<instances, heap, calls, pvars, tvars>>

\* clearInstances is synchronous; the calls in flight go on afterwards
InFlight(f) == f.pc \notin {"idle", "done"}
clearInstances ==
    /\ calls < MaxCalls
    /\ instances' = MapClear(instances)
    /\ gp' = [p \in Callers |-> IF InFlight(gp[p]) THEN [gp[p] EXCEPT !.cleared = TRUE]
                                                   ELSE gp[p]]
    /\ lastEvt' = ClearEvt(Len(heap))
    /\ calls' = calls + 1
    /\ UNCHANGED <<heap, top, pvars, tvars>>

Next ==
    \/ \E p \in Callers : CallGetProvider(p)
    \/ \E p \in Callers : ResumeCachedProbe(p)
    \/ \E p \in Callers : ResumeImport(p)
    \/ \E p \in Callers : ResumeInitialize(p)
    \/ \E p \in Callers : ResumeNewProbe(p)
    \/ \E p \in Callers : CallGetBestProvider(p)
    \/ \E p \in Callers : ResumeGetBestProvider(p)
    \/ \E p \in Callers : CallGetAllProviders(p)
    \/ \E p \in Callers : ResumeGetAllProviders(p)
    \/ clearInstances

Spec == Init /\ [][Next]_vars

(* ------------------- calls on one AnthropicProvider -------------------- *)
\* the caller makes one call at a time: each action is a call from its start to
\* its settling, and Receive hands the outcome to the caller
Ready == outcome = NoOutcome

Initialize ==
    /\ Ready
    /\ \E config \in Configs, ctor \in {"ok", "throw"} :
         LET r == initialize(self, config, ctor)
         IN  self' = r.self /\ outcome' = r.outcome
    /\ UNCHANGED <<fvars, tvars>>

GenerateTasks ==
    /\ Ready
    /\ \E reply \in Replies : outcome' = generation("generateTasks", self, reply)
    /\ UNCHANGED <<self, fvars, tvars>>

ExpandTask ==
    /\ Ready
    /\ \E reply \in Replies : outcome' = generation("expandTask", self, reply)
    /\ UNCHANGED <<self, fvars, tvars>>

AnalyzeComplexity ==
    /\ Ready
    /\ \E reply \in Replies : outcome' = generation("analyzeComplexity", self, reply)
    /\ UNCHANGED <<self, fvars, tvars>>

HandleError ==
    /\ Ready
    /\ \E e \in VendorErrors :
         outcome' = [Returned("handleError", FALSE, NoReply, JsMessage(handleError(e)))
                        EXCEPT !.cause = e]
    /\ UNCHANGED <<self, fvars, tvars>>

IsAvailable ==
    /\ Ready
    /\ \E reply \in Replies : outcome' = isAvailable(self, reply)
    /\ UNCHANGED <<self, fvars, tvars>>

Receive ==
    /\ ~Ready
    /\ outcome' = NoOutcome
    /\ UNCHANGED <<self, fvars, tvars>>

ProviderNext ==
    \/ Initialize
    \/ GenerateTasks
    \/ ExpandTask
    \/ AnalyzeComplexity
    \/ HandleError
    \/ IsAvailable
    \/ Receive

ProviderSpec == Init /\ [][ProviderNext]_vars

(* ------------------------- a call of isValidTaskId --------------------- *)
TaskIdInit ==
    /\ instances = {} /\ heap = <<>>
    /\ gp = [p \in Callers |-> IdleGP] /\ top = [p \in Callers |-> IdleTop]
    /\ calls = 0 /\ lastEvt = NoEvt
    /\ self = NewProvider /\ outcome = NoOutcome
    /\ checked \in {[NoCheck EXCEPT !.input = v] : v \in TaskIdInputs}

IsValidTaskId ==
    /\ ~checked.called
    /\ checked' = [checked EXCEPT !.called = TRUE, !.result = isValidTaskId(checked.input)]
    /\ UNCHANGED <<fvars, pvars>>

TaskIdSpec == TaskIdInit /\ [][IsValidTaskId]_vars

(* ------------------------------ properties ----------------------------- *)
\* the getProvider call the last step ended, if it ended one
Ended == lastEvt.kind = "end"
F == lastEvt.f
\* the getBestProvider / getAllProviders call the last step ended
T == lastEvt.t
Supported == {SUPPORTED_PROVIDERS[i] : i \in 1..Len(SUPPORTED_PROVIDERS)}
NoNetwork(f) ==
    /\ f.probed = 0 /\ f.cachedOutcome = "none" /\ f.imported = "none"
    /\ f.created = 0 /\ f.initOutcome = "none" /\ f.newOutcome = "none"
Failed(f, code) == f.error.name = "ProviderError" /\ f.error.code = code /\ f.ret = 0
\* message m ends with the message d
Carries(m, d) == Len(m) >= Len(d) /\ SubSeq(m, Len(m) - Len(d) + 1, Len(m)) = d

\* C1: a getProvider call that directly follows a getProvider call of the same
\* type which constructed, cached and returned an instance, is given an apiKey
\* and sees its liveness probe succeed, returns that same instance and
\* constructs nothing.
C1_SameInstance ==
    (Ended /\ F.prev.kind = "end" /\ Truthy(F.config.apiKey)
        /\ F.cachedOutcome \notin {"false", "throw"})
    => /\ F.error = NoError
       /\ F.cachedOutcome = "true"
       /\ F.ret = F.prev.id
       /\ F.created = 0 /\ F.imported = "none"
C1_Witness ==
    /\ Ended /\ F.prev.kind = "end" /\ F.cachedOutcome = "true"
    /\ F.ret = F.prev.id /\ F.ret # 0

\* C2: getProvider with an unsupported type fails with INVALID_PROVIDER, whatever
\* the config and the cache hold.
C2_InvalidProvider ==
    (Ended /\ F.type \notin Supported) => Failed(F, "INVALID_PROVIDER") /\ NoNetwork(F)
C2_Witness ==
    /\ Ended /\ F.type = "openai" /\ Truthy(F.config.apiKey) /\ instances # {}
    /\ Failed(F, "INVALID_PROVIDER")

\* C3 as stated: getProvider with a missing apiKey fails with INVALID_CONFIG, for
\* every type, before any network call.
C3_Original ==
    (Ended /\ ~Truthy(F.config.apiKey)) => Failed(F, "INVALID_CONFIG") /\ NoNetwork(F)
\* C3 amended: getProvider with a missing apiKey fails before any network call
\* (no probe, no module load, no initialize), with INVALID_CONFIG when the type
\* is supported and with INVALID_PROVIDER when it is not.
C3_MissingApiKey ==
    (Ended /\ ~Truthy(F.config.apiKey))
    => /\ NoNetwork(F)
       /\ IF F.type \in Supported THEN Failed(F, "INVALID_CONFIG")
                                  ELSE Failed(F, "INVALID_PROVIDER")
C3_Witness ==
    /\ Ended /\ F.type \in Supported /\ F.config = ObjConfig("")
    /\ MapHas(instances, F.type)
    /\ Failed(F, "INVALID_CONFIG") /\ NoNetwork(F)

\* C4: in every reachable state the registry holds at most one instance per
\* provider type and holds entries for supported types only.
C4_OnePerType ==
    /\ \A e1, e2 \in instances : e1.key = e2.key => e1 = e2
    /\ MapKeys(instances) \subseteq Supported
\* two instances of one type exist and the registry holds the one a call just cached
C4_Witness ==
    /\ Ended /\ lastEvt.cached
    /\ \E i \in 1..Len(heap) : i # F.ret /\ heap[i].cls = F.type
    /\ \E p \in Callers : gp[p].type = F.type /\ gp[p].pc = "probeNew"
    /\ instances = {[key |-> F.type, value |-> F.ret]}

\* C5: a getProvider call whose probe of the cached instance returned false has,
\* when it ends, loaded the module anew, does not return the stale instance and
\* leaves the cache without it; when it succeeds it returns the instance it
\* constructed, and the cache maps the type to that instance.
C5_EvictStale ==
    (Ended /\ F.cachedOutcome = "false")
    => /\ F.imported # "none"
       /\ F.ret # F.probed
       /\ F.probed \notin MapValues(instances)
       /\ F.error = NoError =>
            /\ F.created # 0 /\ F.created # F.probed /\ F.ret = F.created
            /\ MapHas(instances, F.type) /\ MapGet(instances, F.type) = F.ret
C5_Witness ==
    /\ Ended /\ F.cachedOutcome = "false" /\ F.error = NoError
    /\ F.probed # 0 /\ F.ret = F.created /\ MapGet(instances, F.type) = F.ret

\* C6: a getProvider call whose probe of the instance it constructed returned
\* false fails with PROVIDER_UNAVAILABLE and does not cache the instance; a
\* constructed instance is returned or cached only by a call whose probe of it
\* returned true, and an instance enters the cache in no other way.
C6_ReprobeState ==
    /\ (Ended /\ F.newOutcome = "false")
       => Failed(F, "PROVIDER_UNAVAILABLE") /\ F.created \notin MapValues(instances)
    /\ (Ended /\ F.created # 0 /\ (F.ret = F.created \/ F.created \in MapValues(instances)))
       => F.newOutcome = "true"
\* C6, over behaviours: the state condition above always holds, and every
\* instance a step adds to the cache is the one constructed, probed true and
\* returned by the getProvider call that step ends.
C6_Reprobe ==
    /\ []C6_ReprobeState
    /\ [][\A i \in MapValues(instances') \ MapValues(instances) :
            /\ lastEvt'.kind = "end"
            /\ lastEvt'.f.created = i /\ lastEvt'.f.ret = i
            /\ lastEvt'.f.newOutcome = "true"]_vars
C6_Witness ==
    /\ Ended /\ F.newOutcome = "false" /\ Failed(F, "PROVIDER_UNAVAILABLE")
    /\ F.created # 0 /\ F.cachedOutcome = "false"

\* C7: a getProvider call ends with an instance or with a ProviderError whose
\* code is one of the six factory codes: validation errors and the errors raised
\* inside the sequence keep their code, a failed module load gives
\* MODULE_LOAD_ERROR, a throwing initialize INIT_ERROR, and any other exception
\* (a throwing probe, a default export that is no constructor) UNKNOWN_ERROR
\* with the original message.
FactoryCodes ==
    {"INVALID_PROVIDER", "INVALID_CONFIG", "MODULE_LOAD_ERROR", "INIT_ERROR",
     "PROVIDER_UNAVAILABLE", "UNKNOWN_ERROR"}
C7_ErrorCodes ==
    Ended =>
      /\ (F.error = NoError /\ F.ret # 0)
            \/ (F.error.name = "ProviderError" /\ F.error.code \in FactoryCodes /\ F.ret = 0)
      /\ F.type \notin Supported => F.error.code = "INVALID_PROVIDER"
      /\ (F.type \in Supported /\ ~Truthy(F.config.apiKey)) => F.error.code = "INVALID_CONFIG"
      /\ F.imported = "fail" =>
            F.error.code = "MODULE_LOAD_ERROR" /\ Carries(F.error.message, ImportMessage)
      /\ F.initOutcome = "throw" =>
            F.error.code = "INIT_ERROR" /\ Carries(F.error.message, InitMessage)
      /\ F.newOutcome = "false" => F.error.code = "PROVIDER_UNAVAILABLE"
      /\ F.imported = "notctor" =>
            F.error.code = "UNKNOWN_ERROR" /\ Carries(F.error.message, CtorMessage)
      /\ (F.cachedOutcome = "throw" \/ F.newOutcome = "throw") =>
            F.error.code = "UNKNOWN_ERROR" /\ Carries(F.error.message, ProbeMessage)
      /\ F.error.code = "UNKNOWN_ERROR" =>
            F.imported = "notctor" \/ F.cachedOutcome = "throw" \/ F.newOutcome = "throw"
C7_Witness ==
    /\ Ended /\ F.newOutcome = "throw" /\ Failed(F, "UNKNOWN_ERROR")
    /\ Carries(F.error.message, ProbeMessage)

\* C8: getBestProvider tries the type named by AI_PROVIDER (when set) and then
\* anthropic and google, in that order; it stops at the first attempt that
\* succeeds and returns its instance; it fails, with NO_PROVIDERS and no other
\* code, exactly when every attempt failed.
BestEnded == lastEvt.kind = "getBestProvider"
ExpectedOrder(env) ==
    IF Truthy(env["AI_PROVIDER"]) THEN <<env["AI_PROVIDER"], "anthropic", "google">>
                                  ELSE <<"anthropic", "google">>
C8_BestProvider ==
    BestEnded =>
      LET n == Len(T.tried)
          exp == ExpectedOrder(T.env)
      IN  /\ n >= 1 /\ n <= Len(exp)
          /\ \A i \in 1..n : T.tried[i].type = exp[i]
          /\ \A i \in 1..(n - 1) : ~T.tried[i].ok
          /\ IF T.tried[n].ok
             THEN T.error = NoError /\ T.ret = T.tried[n].ret /\ T.ret # 0
             ELSE n = Len(exp) /\ T.ret = 0
                    /\ T.error.name = "ProviderError" /\ T.error.code = "NO_PROVIDERS"
C8_Witness ==
    /\ BestEnded /\ Len(T.tried) = 3 /\ T.tried[1].type = "openai"
    /\ ~T.tried[1].ok /\ ~T.tried[2].ok /\ T.tried[3].ok
    /\ T.ret = T.tried[3].ret /\ T.ret # 0 /\ heap[T.ret].cls = "google"

\* C9: getAllProviders never throws; it attempts every supported type, a failed
\* attempt not stopping the next, and returns the mapping from exactly the types
\* whose attempt succeeded to the instances those attempts returned; with no
\* credentials at all the mapping is empty and no liveness probe is made.
AllEnded == lastEvt.kind = "getAllProviders"
CredentialsAbsent(t) ==
    \A type \in Supported :
        /\ ~Truthy(t.env[ApiKeyVar(type)])
        /\ type \in DOMAIN t.config.of => ~Truthy(t.config.of[type].apiKey)
C9_AllProviders ==
    AllEnded =>
      /\ T.error = NoError
      /\ Len(T.tried) = Len(SUPPORTED_PROVIDERS)
      /\ \A i \in 1..Len(T.tried) : T.tried[i].type = SUPPORTED_PROVIDERS[i]
      /\ T.providers = {[key |-> T.tried[i].type, value |-> T.tried[i].ret] :
                            i \in {j \in 1..Len(T.tried) : T.tried[j].ok}}
      /\ CredentialsAbsent(T) =>
            T.providers = {} /\ \A i \in 1..Len(T.tried) : ~T.tried[i].probes
C9_Witness ==
    /\ AllEnded /\ T.config.kind = "object"
    /\ ~T.tried[1].ok /\ T.tried[1].probes /\ T.tried[2].ok
    /\ T.providers = {[key |-> "google", value |-> T.tried[2].ret]}

\* C10: right after clearInstances the cache is empty, and a getProvider call
\* that directly follows it probes no cached instance and, when it succeeds,
\* returns an instance it constructed itself, none of those constructed before
\* the clear.
C10_ClearThenGet ==
    /\ lastEvt.kind = "clear" => instances = {}
    /\ (Ended /\ F.prev.kind = "clear")
       => /\ F.probed = 0 /\ F.cachedOutcome = "none"
          /\ F.error = NoError =>
               /\ F.imported = "ok" /\ F.created # 0 /\ F.ret = F.created
               /\ F.ret > F.prev.id
C10_Witness ==
    /\ Ended /\ F.prev.kind = "clear" /\ F.error = NoError
    /\ \E i \in 1..F.prev.id : heap[i].cls = F.type
    /\ F.ret > F.prev.id /\ MapGet(instances, F.type) = F.ret

(* --------------------------- races on the cache ------------------------ *)
\* C11: two getProvider calls of one type that overlap and both find the cache
\* empty both construct an instance, the two instances are distinct, and after
\* each write of the cache the slot holds the instance of the call that wrote
\* last, whatever it held before.
C11_LastWriteWins ==
    /\ (Ended /\ lastEvt.cached)
       => /\ F.ret # 0 /\ F.ret = F.created
          /\ MapHas(instances, F.type) /\ MapGet(instances, F.type) = F.ret
          /\ lastEvt.replaced # F.ret
          /\ lastEvt.replaced \notin MapValues(instances)
    /\ \A p, q \in Callers :
          (p # q /\ gp[p].created # 0 /\ gp[q].created # 0)
          => gp[p].created # gp[q].created
\* slot q's call found the cache empty, constructed and cached its instance and
\* holds it; the call just ended found the cache empty too, holds another
\* instance of the type, and its write replaced the one of q
C11_Witness ==
    /\ Ended /\ lastEvt.cached /\ F.probed = 0
    /\ MapGet(instances, F.type) = F.ret
    /\ \E q \in Callers :
          /\ gp[q].pc = "done" /\ gp[q].type = F.type /\ gp[q].probed = 0
          /\ gp[q].ret # 0 /\ gp[q].ret # F.ret
          /\ lastEvt.replaced = gp[q].ret

\* C18 as stated: the instance a successful getProvider(type, config) returns
\* was initialized with the config passed to that call.
C18_Original ==
    (Ended /\ F.error = NoError) => heap[F.ret].config = F.config
\* C18 amended: the instance a successful getProvider call returns was
\* initialized with the config of the call that constructed it: a call that
\* constructs returns its own instance, initialized with its own config; a call
\* that finds a live cached instance returns that instance as it is, and the
\* config passed to this call is not applied.
C18_ConfigOfConstructor ==
    (Ended /\ F.error = NoError)
    => IF F.created # 0
       THEN F.ret = F.created /\ heap[F.ret].config = F.config
       ELSE F.ret = F.probed /\ F.cachedOutcome = "true" /\ F.initOutcome = "none"
\* a call with another apiKey is given the cached instance
C18_Witness ==
    /\ Ended /\ F.error = NoError /\ F.created = 0 /\ F.ret = F.probed
    /\ Truthy(F.config.apiKey) /\ Truthy(heap[F.ret].config.apiKey)
    /\ heap[F.ret].config.apiKey # F.config.apiKey

\* C19: the only instance a getProvider call removes from the cache is the one
\* whose probe it just saw fail.
C19_EvictOnlyProbed ==
    [][\A p \in Callers :
         (gp[p].pc = "probeCached" /\ gp'[p].pc = "import" /\ gp'[p].cachedOutcome = "false")
         => (MapValues(instances) \ MapValues(instances')) \subseteq {gp[p].probed}]_vars

\* C20: a getProvider call that was in flight when clearInstances ran does not
\* write the cache when it later completes.
C20_NoRepopulate ==
    (Ended /\ lastEvt.cached) => ~F.cleared

\* the frame slot p's getProvider call has after a step: a direct call that
\* ended has left its slot, and its frame is the one of the event
FrameAfter(p) == IF gp'[p].pc = "idle" THEN lastEvt'.f ELSE gp'[p]
GenEnded == outcome.op \in GenerationOps
TextReply == outcome.called /\ outcome.reply.kind = "text"
\* text t has an opening brace with a closing brace after it
HasRegion(t) == \E i, j \in 1..Len(t) : i < j /\ t[i] = "{" /\ t[j] = "}"
\* from the first opening brace of t to its last closing brace
RegionOf(t) ==
    SubSeq(t, SetMin({i \in 1..Len(t) : t[i] = "{"}), SetMax({j \in 1..Len(t) : t[j] = "}"}))
\* r is the text of a JSON object
WellFormed(r) ==
    /\ Len(r) >= 2 /\ r[1] = "{" /\ r[Len(r)] = "}"
    /\ \A k \in 2..(Len(r) - 1) : r[k] \in MemberTokens
\* the places of r that give the field of op a value, and whether the value the
\* object ends with is an array
FieldPlaces(r, op) ==
    {k \in 2..(Len(r) - 1) : r[k] \in (IF op = "generateTasks" THEN {"T", "N"} ELSE {"S", "M"})}
FieldIsArray(r, op) ==
    FieldPlaces(r, op) # {} /\ r[SetMax(FieldPlaces(r, op))] \in {"T", "S"}

\* C12: a generation operation returns or throws an Error whose message is what
\* handleError returns for the error that was caught; a provider that is not
\* initialized, a rejected vendor request, a text with no JSON region, a region
\* that does not parse and a missing required field all end that way, and the
\* error thrown is never the caught one.
C12_Rewrapped ==
    GenEnded =>
      /\ outcome.status \in {"returned", "threw"}
      /\ outcome.status = "threw" =>
            /\ outcome.thrown.name = "Error"
            /\ outcome.thrown.message = handleError(outcome.cause)
            /\ outcome.thrown.type = Undefined /\ outcome.thrown.error = NoBody
            /\ outcome.thrown # outcome.cause
      /\ ~self.client =>
            outcome.status = "threw" /\ outcome.cause.name = "TypeError" /\ ~outcome.called
      /\ outcome.reply.kind = "reject" =>
            outcome.status = "threw" /\ outcome.cause = outcome.reply.error
      /\ (TextReply /\ ~HasRegion(outcome.reply.text)) => outcome.status = "threw"
      /\ (TextReply /\ HasRegion(outcome.reply.text)
             /\ ~WellFormed(RegionOf(outcome.reply.text)))
         => outcome.status = "threw" /\ outcome.cause.name = "SyntaxError"
      /\ (TextReply /\ HasRegion(outcome.reply.text) /\ outcome.op # "analyzeComplexity"
             /\ ~FieldIsArray(RegionOf(outcome.reply.text), outcome.op))
         => outcome.status = "threw"
C12_Witness ==
    /\ GenEnded /\ outcome.reply.kind = "reject"
    /\ outcome.reply.error.type = "error"
    /\ outcome.reply.error.error.type = "rate_limit_error"
    /\ outcome.status = "threw" /\ outcome.thrown = NewError(RateLimitMessage)

\* C13: a vendor response text with no opening brace that has a closing brace
\* after it makes each generation operation throw the Error that carries
\* 'Failed to parse JSON from response'; nothing is returned.
C13_NoRegion ==
    (GenEnded /\ TextReply /\ ~HasRegion(outcome.reply.text))
    => /\ outcome.status = "threw" /\ outcome.value = JsUndefined
       /\ outcome.cause = NewError(ParseFailedMessage)
       /\ outcome.thrown.name = "Error"
       /\ Carries(outcome.thrown.message, ParseFailedMessage)
\* both braces are there, the closing one first
C13_Witness ==
    /\ outcome.op = "analyzeComplexity" /\ TextReply
    /\ Includes(outcome.reply.text, "{") /\ Includes(outcome.reply.text, "}")
    /\ ~HasRegion(outcome.reply.text)
    /\ outcome.status = "threw" /\ Carries(outcome.thrown.message, ParseFailedMessage)

\* C14: for generateTasks and expandTask and a text that has a region (first
\* opening brace to last closing brace): the call returns, and returns exactly
\* the array the parsed object holds in the required field, if and only if the
\* region parses as JSON and the field is an array; otherwise it throws, on a
\* SyntaxError when the region does not parse and on 'Invalid response format'
\* when the field is missing or no array.
C14_FormatOrArray ==
    (outcome.op \in {"generateTasks", "expandTask"} /\ TextReply
        /\ HasRegion(outcome.reply.text))
    => LET r == RegionOf(outcome.reply.text)
       IN  IF WellFormed(r) /\ FieldIsArray(r, outcome.op)
           THEN /\ outcome.status = "returned"
                /\ outcome.value = JsArray(SetMax(FieldPlaces(r, outcome.op)))
           ELSE /\ outcome.status = "threw" /\ outcome.value = JsUndefined
                /\ IF WellFormed(r)
                   THEN /\ outcome.cause = NewError(InvalidFormatMessage)
                        /\ Carries(outcome.thrown.message, InvalidFormatMessage)
                   ELSE outcome.cause.name = "SyntaxError"
C14_Witness ==
    /\ outcome.op = "expandTask" /\ TextReply
    /\ outcome.reply.text = <<"w", "{", "S", "}">>
    /\ outcome.status = "returned" /\ outcome.value = JsArray(2)

\* C15: isAvailable never throws and returns a boolean: false, with no vendor
\* request, when the provider holds no client or its config has no apiKey;
\* otherwise it makes one request and returns true exactly when it succeeds.
C15_IsAvailable ==
    outcome.op = "isAvailable" =>
      /\ outcome.status = "returned" /\ outcome.thrown = NoJsError
      /\ outcome.value.kind = "boolean"
      /\ IF ~self.client \/ ~Truthy(self.config.apiKey)
         THEN outcome.value = JsBoolean(FALSE) /\ ~outcome.called
         ELSE /\ outcome.called
              /\ outcome.value = JsBoolean(outcome.reply.kind \in {"text", "nocontent"})
C15_Witness ==
    /\ outcome.op = "isAvailable" /\ self.client /\ self.config = ObjConfig("")
    /\ outcome.value = JsBoolean(FALSE) /\ ~outcome.called

\* C16: handleError gives every error exactly one of the five categories: a
\* structured vendor error (type 'error' with a body) goes by the type of its
\* body, whatever its message says, an unknown body type giving the generic
\* message with the message of the body; any other error is a timeout when its
\* message has 'timeout' in any case, else a network error when it has
\* 'network', else the generic message with the message of the error.
TimeoutWords == {"timeout", "Timeout", "TIMEOUT"}
NetworkWords == {"network", "Network", "NETWORK"}
Says(e, words) == e.message # NoMessage /\ \E i \in 1..Len(e.message) : e.message[i] \in words
Category(m) ==
    CASE m = OverloadedMessage -> "overload"
      [] m = RateLimitMessage -> "rate-limit"
      [] m = InvalidRequestMessage -> "malformed-request"
      [] m \in {TimeoutMessage, NetworkMessage} -> "network/timeout"
      [] Len(m) >= 1 /\ <<m[1]>> \in {ApiErrorPrefix, CommunicatingPrefix} -> "generic"
      [] OTHER -> "none"
C16_Classification ==
    outcome.op = "handleError" =>
      LET e == outcome.cause
          m == outcome.value.words
      IN  /\ Category(m) # "none"
          /\ IF e.type = "error" /\ e.error # NoBody
             THEN CASE e.error.type = "overloaded_error" -> Category(m) = "overload"
                    [] e.error.type = "rate_limit_error" -> Category(m) = "rate-limit"
                    [] e.error.type = "invalid_request_error" -> Category(m) = "malformed-request"
                    [] OTHER -> Category(m) = "generic" /\ Carries(m, e.error.message)
             ELSE IF Says(e, TimeoutWords) THEN m = TimeoutMessage
             ELSE IF Says(e, NetworkWords) THEN m = NetworkMessage
             ELSE /\ Category(m) = "generic"
                  /\ Carries(m, IF e.message = NoMessage THEN <<"undefined">> ELSE e.message)
C16_Witness ==
    /\ outcome.op = "handleError"
    /\ outcome.cause.type = "error" /\ outcome.cause.error.type = "overloaded_error"
    /\ Says(outcome.cause, TimeoutWords)
    /\ outcome.value.words = OverloadedMessage

(* ------------------------------ isValidTaskId claim --------------------- *)
\* the run of /^TASK-(0|[1-9][0-9]*)$/ over s from place i in state q: 0..4
\* inside the prefix, 5 after it, 6 after the numeral 0, 7 inside a numeral
\* that starts with 1..9, 8 when the match has failed
RegexStep(q, c) ==
    CASE q < 5 -> IF c = TASK_PREFIX[q + 1] THEN q + 1 ELSE 8
      [] q = 5 -> IF c = "0" THEN 6 ELSE IF c \in Digits THEN 7 ELSE 8
      [] q = 7 -> IF c \in Digits THEN 7 ELSE 8
      [] OTHER -> 8
RECURSIVE RegexRun(_, _, _)
RegexRun(s, i, q) == IF i > Len(s) THEN q ELSE RegexRun(s, i + 1, RegexStep(q, s[i]))
MatchesTaskId(s) == RegexRun(s, 1, 0) \in {6, 7}

\* C17: isValidTaskId of a string is true exactly when the string matches
\* ^TASK-(0|[1-9][0-9]*)$ and has 6 to 12 characters; of null, undefined or a
\* value that is no string it is false.
C17_TaskIdFormat ==
    checked.called =>
      checked.result =
        (/\ checked.input.kind = "string"
         /\ MatchesTaskId(checked.input.chars)
         /\ Len(checked.input.chars) >= 6 /\ Len(checked.input.chars) <= 12)
\* the longest valid id
C17_Witness ==
    /\ checked.called /\ checked.result
    /\ Len(checked.input.chars) = 12 /\ checked.input.chars[6] = "7"
    /\ checked.input.chars[7] = "0"

====
